---- MODULE Spec2Model ----
(***************************************************************************)
(* Scope management and incremental IR construction of relax:              *)
(*   src/src/ir/scope.h            ScopeManagerNode, BaseScopeNode,        *)
(*                                 IRModuleScopeNode                       *)
(*   src/src/relax/ir/ir_builder.cc  IRBuilderNode                         *)
(* Scope objects live on a heap (store) and are referred to by identity,   *)
(* as the ObjectRef handles of the source do.  A failed LOG(FATAL), CHECK  *)
(* or ICHECK throws: the call returns an error and the statements after it *)
(* are not executed.                                                       *)
(***************************************************************************)
EXTENDS Integers, Sequences, FiniteSets, TLC

VARIABLES
    store,        \* heap: scope identity -> BaseScopeNode (or a subclass)
    scopes,       \* ScopeManagerNode::scopes, a stack of scope identities
    name2value,   \* ScopeManagerNode::name2value
    id2bind,      \* IRBuilderNode::id2bind
    nextId,       \* identity of the next IdNode / GlobalVarNode allocated
    ret,          \* the last call: its name, arguments, error and result
    prev,         \* summary of the call before it
    frames,       \* history, parallel to scopes: what each push found
    cbRuns,       \* history: how often each registered callback has run
    pushed,       \* history: the scope objects pushed so far
    lifo,         \* history: each scope pushed once, names given to open scopes
    scen,         \* history: progress through begin/emit/emit_output
    adds          \* history: the IRModuleScopeNode::Add calls so far

vars == <<store, scopes, name2value, id2bind, nextId, ret, prev, frames,
          cbRuns, pushed, lifo, scen, adds>>

(***************************************************************************)
(* Bounds of the model.                                                    *)
(***************************************************************************)
MaxDepth == 2
MaxNest == 1
MaxRuns == 2
MaxVars == 2
MaxCallbacks == 2
MaxBindings == 1
MaxIds == 2
MaxFuncs == 3
MaxAdds == 3

Prefixes == {"lv", "gv"}
Names == {"lv0", "lv1"}
Values == {"a"}
CallbackIds == {"cb1", "cb2"}
\* the scope objects a caller of the manager holds
ScopeIds == {1, 2}

NoErr == "ok"
ErrVarExists == "Variable already exists"
ErrEmptyArray == "cannot index an empty array"

EmptyMap == [x \in {} |-> x]

(***************************************************************************)
(* Scope objects.                                                          *)
(***************************************************************************)
BaseScope ==
    [kind |-> "BaseScope", vars |-> <<>>, callbacks |-> <<>>,
     bindings |-> <<>>, func_map |-> {}, structural_map |-> {}]

\* the identity of a new scope object: the least one not in use
Unused == {s \in 1..(Cardinality(DOMAIN store) + 1) : s \notin DOMAIN store}
FreshScope == CHOOSE s \in Unused : \A t \in Unused : s <= t

Alloc(s, node) == [t \in DOMAIN store \cup {s} |-> IF t = s THEN node ELSE store[t]]

AddVarDropped(node, var) == node

\* BaseScopeNode::AddVar / AddCallback
AddVar(node, var) == [node EXCEPT !.vars = Append(@, var)]
AddCallbackTo(node, cb) == [node EXCEPT !.callbacks = Append(@, cb)]

(***************************************************************************)
(* ScopeManagerNode                                                        *)
(***************************************************************************)
Erase(map, name) == [n \in DOMAIN map \ {name} |-> map[n]]
MapSet(map, k, v) == [n \in DOMAIN map \cup {k} |-> IF n = k THEN v ELSE map[n]]

\* for (int i = 0;; i++) { name = prefix + to_string(i); if absent return }
RECURSIVE Probe(_, _, _)
Probe(map, prefix, i) ==
    LET name == prefix \o ToString(i)
    IN  IF name \notin DOMAIN map THEN name ELSE Probe(map, prefix, i + 1)

UniqueName(map, prefix) == Probe(map, prefix, 0)

\* for (const Callback& cb : scope->callbacks) cb();
\* the positions of scope->callbacks in the order they are invoked
RECURSIVE RunFrom(_, _, _)
RunFrom(cbs, i, log) ==
    IF i > Len(cbs) THEN log
    ELSE RunFrom(cbs, i + 1, Append(log, i))

RunCallbacksReversed(cbs) ==
    LET log == RunFrom(cbs, 1, <<>>)
    IN  [k \in DOMAIN log |-> log[Len(log) + 1 - k]]

RunCallbacks(cbs) == RunFrom(cbs, 1, <<>>)

Count(log, i) == Cardinality({k \in DOMAIN log : log[k] = i})

EraseVarsFirstOnly(map, names) ==
    IF names = <<>> THEN map ELSE Erase(map, Head(names))

\* for (const String& name : scope->vars) name2value.erase(name);
RECURSIVE EraseVars(_, _)
EraseVars(map, names) ==
    IF names = <<>> THEN map
    ELSE EraseVars(Erase(map, Head(names)), Tail(names))

Range(seq) == {seq[i] : i \in DOMAIN seq}
Top == scopes[Len(scopes)]
Butlast(s) == SubSeq(s, 1, Len(s) - 1)

Summary(r) ==
    IF r.op = "GetUniqueName"
    THEN [op |-> r.op, arg |-> r.prefix, val |-> r.name]
    ELSE [op |-> "other", arg |-> "", val |-> ""]

\* progress through begin_dataflow_block(); emit(e1); emit_output(e2);
\* end_block(), as calls made one after the other
ScenNext(r) ==
    IF r.op = "BeginDataflowBlock" THEN [stage |-> 1, exprs |-> <<>>]
    ELSE IF r.op = "EmitExpr" /\ scen.stage = 1
    THEN [stage |-> 2, exprs |-> <<r.expr>>]
    ELSE IF r.op = "EmitOutputExpr" /\ scen.stage = 2
    THEN [stage |-> 3, exprs |-> Append(scen.exprs, r.expr)]
    ELSE IF r.op = "EndBlock" /\ scen.stage = 3
    THEN [stage |-> 4, exprs |-> scen.exprs]
    ELSE [stage |-> 0, exprs |-> <<>>]

\* history kept by every call
Called(r) ==
    /\ ret' = r
    /\ prev' = Summary(ret)
    /\ scen' = ScenNext(r)
    /\ adds' = IF r.op = "Add"
               THEN Append(adds, [scope |-> r.scope, name |-> r.name,
                                  func |-> r.func, gv |-> r.gv])
               ELSE adds


Init ==
    /\ store = EmptyMap
    /\ scopes = <<>>
    /\ name2value = EmptyMap
    /\ id2bind = EmptyMap
    /\ nextId = 1
    /\ ret = [op |-> "init", err |-> NoErr]
    /\ prev = [op |-> "none", arg |-> "", val |-> ""]
    /\ frames = <<>>
    /\ cbRuns = EmptyMap
    /\ pushed = {}
    /\ lifo = TRUE
    /\ scen = [stage |-> 0, exprs |-> <<>>]
    /\ adds = <<>>

\* BaseScope(): a caller makes a scope object
NewScope ==
    /\ FreshScope \in ScopeIds
    /\ store' = Alloc(FreshScope, BaseScope)
    /\ cbRuns' = [t \in DOMAIN cbRuns \cup {FreshScope} |->
                      IF t = FreshScope THEN <<>> ELSE cbRuns[t]]
    /\ Called([op |-> "BaseScope", err |-> NoErr])
    /\ UNCHANGED <<scopes, name2value, id2bind, nextId, frames, pushed,
                   lifo>>

NewFrame == [snap |-> name2value]

\* ScopeManagerNode::PushScope
PushScope(s) ==
    /\ Len(scopes) < MaxDepth
    /\ \A i \in DOMAIN cbRuns[s] : cbRuns[s][i] < MaxRuns
    /\ scopes' = Append(scopes, s)
    /\ frames' = Append(frames, NewFrame)
    /\ pushed' = pushed \cup {s}
    /\ lifo' = (lifo /\ s \notin pushed)
    /\ Called([op |-> "PushScope", err |-> NoErr])
    /\ UNCHANGED <<store, name2value, id2bind, nextId, cbRuns>>

\* the state PopScope leaves, for a non-empty stack
PopRegistry(node) == EraseVars(name2value, node.vars)
PopRuns(s, node) ==
    LET log == RunCallbacks(node.callbacks)
    IN  [cbRuns EXCEPT ![s] = [i \in DOMAIN @ |-> @[i] + Count(log, i)]]
PopRan(node) ==
    LET log == RunCallbacks(node.callbacks)
    IN  [k \in DOMAIN log |-> node.callbacks[log[k]]]

PopScopeLenient ==
    IF scopes = <<>>
    THEN /\ name2value' = EmptyMap
         /\ Called([op |-> "PopScope", err |-> NoErr, scope |-> 0,
                    ran |-> <<>>, snap |-> name2value])
         /\ UNCHANGED <<store, scopes, id2bind, nextId, frames, cbRuns,
                        pushed, lifo>>
    ELSE LET s == Top
             node == store[s]
         IN  /\ scopes' = Butlast(scopes)
             /\ frames' = Butlast(frames)
             /\ cbRuns' = PopRuns(s, node)
             /\ name2value' = PopRegistry(node)
             /\ Called([op |-> "PopScope", err |-> NoErr, scope |-> s,
                        ran |-> PopRan(node),
                        snap |-> frames[Len(frames)].snap])
             /\ UNCHANGED <<store, id2bind, nextId, pushed, lifo>>

\* ScopeManagerNode::PopScope
PopScope ==
    IF scopes = <<>>
    THEN /\ Called([op |-> "PopScope", err |-> ErrEmptyArray])
         /\ UNCHANGED <<store, scopes, name2value, id2bind, nextId, frames,
                        cbRuns, pushed, lifo>>
    ELSE LET s == Top
             node == store[s]
         IN  /\ scopes' = Butlast(scopes)
             /\ frames' = Butlast(frames)
             /\ cbRuns' = PopRuns(s, node)
             /\ name2value' = PopRegistry(node)
             /\ Called([op |-> "PopScope", err |-> NoErr, scope |-> s,
                        ran |-> PopRan(node),
                        snap |-> frames[Len(frames)].snap])
             /\ UNCHANGED <<store, id2bind, nextId, pushed, lifo>>

AddVarsUnchecked(name, value, s) ==
    /\ Len(store[s].vars) < MaxVars
    /\ name2value' = MapSet(name2value, name, value)
    /\ store' = [store EXCEPT ![s] = AddVar(@, name)]
    /\ Called([op |-> "AddVars", err |-> NoErr, name |-> name])
    /\ lifo' = (lifo /\ \E i \in DOMAIN scopes : scopes[i] = s)
    /\ UNCHANGED <<scopes, id2bind, nextId, frames, cbRuns, pushed>>

\* ScopeManagerNode::AddVars
AddVars(name, value, s) ==
    IF name \in DOMAIN name2value
    THEN /\ Called([op |-> "AddVars", err |-> ErrVarExists, name |-> name])
         /\ UNCHANGED <<store, scopes, name2value, id2bind, nextId, frames,
                        cbRuns, pushed, lifo>>
    ELSE /\ Len(store[s].vars) < MaxVars
         /\ name2value' = MapSet(name2value, name, value)
         /\ store' = [store EXCEPT ![s] = AddVar(@, name)]
         /\ Called([op |-> "AddVars", err |-> NoErr, name |-> name])
         /\ lifo' = (lifo /\ \E i \in DOMAIN scopes : scopes[i] = s)
         /\ UNCHANGED <<scopes, id2bind, nextId, frames, cbRuns, pushed>>

\* BaseScopeNode::AddCallback, on any scope object
AddCallback(s, cb) ==
    /\ Len(store[s].callbacks) < MaxCallbacks
    /\ store' = [store EXCEPT ![s] = AddCallbackTo(@, cb)]
    /\ cbRuns' = [cbRuns EXCEPT ![s] = Append(@, 0)]
    /\ Called([op |-> "AddCallback", err |-> NoErr])
    /\ UNCHANGED <<scopes, name2value, id2bind, nextId, frames, pushed,
                   lifo>>

\* ScopeManagerNode::GetUniqueName
GetUniqueName(prefix) ==
    /\ Called([op |-> "GetUniqueName", err |-> NoErr, prefix |-> prefix,
               name |-> UniqueName(name2value, prefix)])
    /\ UNCHANGED <<store, scopes, name2value, id2bind, nextId, frames,
                   cbRuns, pushed, lifo>>

\* the scope stack and the name registry
NextNames ==
    \/ NewScope
    \/ \E s \in DOMAIN store : PushScope(s)
    \/ PopScope
    \/ \E name \in Names, value \in Values, s \in DOMAIN store :
           AddVars(name, value, s)

SpecNames == Init /\ [][NextNames]_vars

\* the same, with names asked of GetUniqueName
NextFresh ==
    \/ NextNames
    \/ \E prefix \in Prefixes : GetUniqueName(prefix)

SpecFresh == Init /\ [][NextFresh]_vars

NextCallbacks ==
    \/ NewScope
    \/ \E s \in DOMAIN store : PushScope(s)
    \/ PopScope
    \/ \E s \in DOMAIN store, cb \in CallbackIds : AddCallback(s, cb)

SpecCallbacks == Init /\ [][NextCallbacks]_vars

\* the calls and erasures PopScope makes, in the order it makes them, each
\* with the registry it leaves
CallbackEvents(cbs, map) ==
    LET log == RunCallbacks(cbs)
    IN  [k \in DOMAIN log |->
            [ev |-> "callback", what |-> cbs[log[k]], registry |-> map]]

RECURSIVE EraseEvents(_, _)
EraseEvents(map, names) ==
    IF names = <<>> THEN <<>>
    ELSE LET m == Erase(map, Head(names))
         IN  <<[ev |-> "erase", what |-> Head(names), registry |-> m]>>
                 \o EraseEvents(m, Tail(names))

PopEventsEraseFirst(node, map) ==
    EraseEvents(map, node.vars)
        \o CallbackEvents(node.callbacks, EraseVars(map, node.vars))

\* for (cb : scope->callbacks) cb(); for (name : scope->vars) erase(name);
PopEvents(node, map) ==
    CallbackEvents(node.callbacks, map) \o EraseEvents(map, node.vars)

\* scopes that own names and callbacks, pushed and popped; a scope is given
\* its callbacks before it is first pushed
NextPop ==
    \/ NewScope
    \/ \E s \in DOMAIN store : PushScope(s)
    \/ PopScope
    \/ \E s \in DOMAIN store : AddVars("lv0", "a", s)
    \/ \E s \in DOMAIN store \ pushed : AddCallback(s, "cb1")

SpecPop == Init /\ [][NextPop]_vars

(***************************************************************************)
(* Values of the builder: ids, vars, expressions, bindings.                *)
(***************************************************************************)
NoShape == [defined |-> FALSE, dims |-> <<>>]
ShapeExpr(pattern) == [defined |-> TRUE, dims |-> pattern]
NoType == [k |-> "undef", rank |-> 0, dtype |-> ""]
ShapeType == [k |-> "ShapeType", rank |-> 0, dtype |-> ""]
DynTensorType(rank, dtype) == [k |-> "DynTensorType", rank |-> rank, dtype |-> dtype]

\* Id(name_hint): a new IdNode; ids are compared by identity
Id(obj, name) == [obj |-> obj, name |-> name]
\* Var(id, NullOpt, NullOpt) and DataflowVar(id, NullOpt, NullOpt)
Var(id) == [vid |-> id, local |-> FALSE, shape |-> NoShape, type |-> NoType]
DataflowVar(id) == [vid |-> id, local |-> TRUE, shape |-> NoShape, type |-> NoType]
NoVar == Var(Id(0, ""))

\* var->IsInstance<DataflowVarNode>()
IsDataflowVar(var) == var.local

\* vars the caller has made: a DataflowVar and a Var
CallerVars == {DataflowVar(Id(101, "x")), Var(Id(102, "y"))}

\* a call of an operator with no registered inference and nothing cached,
\* and a reference to a var of known shape and type
ECall == [kind |-> "Call", op |-> "f", shape |-> NoShape, type |-> NoType,
          tupleIsVar |-> FALSE, index |-> 0, fieldShapes |-> <<>>,
          fieldTypes |-> <<>>]
EVar == [kind |-> "Var", op |-> "", shape |-> ShapeExpr(<<"n">>),
         type |-> DynTensorType(1, "f32"),
         tupleIsVar |-> FALSE, index |-> 0, fieldShapes |-> <<>>,
         fieldTypes |-> <<>>]
Exprs == {ECall, EVar}
Patterns == {<<"n", "m">>}
NullOpt == ""
Hints == {NullOpt, "x"}

VarBinding(var, value) ==
    [tag |-> "VarBinding", var |-> var, value |-> value, pattern |-> <<>>]
MatchShape(value, pattern, var) ==
    [tag |-> "MatchShape", var |-> var, value |-> value, pattern |-> pattern]

\* the operator attribute registry (Op::GetAttrMap), one registered operator
FInferShape == [op \in {"add"} |-> ShapeExpr(<<"n">>)]
FInferType == [op \in {"add"} |-> DynTensorType(1, "f32")]

InferShape(call) ==
    IF call.shape.defined THEN call.shape
    ELSE IF call.op \in DOMAIN FInferShape THEN FInferShape[call.op]
    ELSE NoShape

InferType(call) ==
    IF call.type.k # "undef" THEN call.type
    ELSE IF call.op \in DOMAIN FInferType THEN FInferType[call.op]
    ELSE NoType

ErrEmptyStack == "Check failed: !scopes.empty()"
ErrInvalidScope == "Invalid scope"
ErrEmitLocal == "Emit can only be used for local bindings in a dataflow block"
ErrEmitOutput == "EmitOutput has to be called inside dataflow block."
ErrMatchLocal == "EmitMatchShape can only be used for local bindings in a dataflow block."
ErrMatchGlobal == "cannot emit dataflow vars outside a dataflow block"
ErrTupleField == "TypeError: Invalid type as the tuple field of TupleGetItem"
ErrUnchecked == "the type checker has not populated the checked_type field"
ErrMatchType == "TypeError: Invalid type of value, must be of DynTensorType or ShapeType"

DataflowScope == [BaseScope EXCEPT !.kind = "DataflowScope"]
NonDataflowScope == [BaseScope EXCEPT !.kind = "NonDataflowScope"]
IRModuleScope == [BaseScope EXCEPT !.kind = "IRModuleScope"]

Failed(err) == [err |-> err, store |-> store, id2bind |-> id2bind, var |-> NoVar]
Emitted(s, binding, ids) ==
    [err |-> NoErr,
     store |-> [store EXCEPT ![s].bindings = Append(@, binding)],
     id2bind |-> ids, var |-> binding.var]

EmitResultUnchecked(binding) ==
    IF scopes = <<>> THEN Failed(ErrEmptyArray)
    ELSE IF store[Top].kind \in {"DataflowScope", "NonDataflowScope"}
    THEN Emitted(Top, binding, MapSet(id2bind, binding.var.vid, binding.value))
    ELSE Failed(ErrInvalidScope)

\* IRBuilderNode::Emit(const VarBinding&): what the call leaves and returns
EmitResult(binding) ==
    IF scopes = <<>> THEN Failed(ErrEmptyArray)
    ELSE IF store[Top].kind = "DataflowScope"
    THEN IF ~IsDataflowVar(binding.var) THEN Failed(ErrEmitLocal)
         ELSE Emitted(Top, binding,
                      MapSet(id2bind, binding.var.vid, binding.value))
    ELSE IF store[Top].kind = "NonDataflowScope"
    THEN Emitted(Top, binding, MapSet(id2bind, binding.var.vid, binding.value))
    ELSE Failed(ErrInvalidScope)

EmitOutputResultAnyBlock(binding) ==
    IF scopes = <<>> THEN Failed(ErrEmptyArray)
    ELSE IF store[Top].kind \in {"DataflowScope", "NonDataflowScope"}
    THEN IF ~IsDataflowVar(binding.var) THEN Failed(ErrEmitOutput)
         ELSE Emitted(Top, binding,
                      MapSet(id2bind, binding.var.vid, binding.value))
    ELSE Failed(ErrInvalidScope)

\* IRBuilderNode::EmitOutput(const VarBinding&)
EmitOutputResult(binding) ==
    IF scopes = <<>> THEN Failed(ErrEmptyArray)
    ELSE IF store[Top].kind = "DataflowScope"
    THEN IF ~IsDataflowVar(binding.var) THEN Failed(ErrEmitOutput)
         ELSE Emitted(Top, binding,
                      MapSet(id2bind, binding.var.vid, binding.value))
    ELSE Failed(ErrInvalidScope)

EmitMatchShapeResultLeaky(binding) ==
    IF scopes = <<>> THEN Failed(ErrEmptyArray)
    ELSE IF store[Top].kind = "DataflowScope"
    THEN IF ~IsDataflowVar(binding.var) THEN Failed(ErrMatchLocal)
         ELSE Emitted(Top, binding, id2bind)
    ELSE IF store[Top].kind = "NonDataflowScope"
    THEN Emitted(Top, binding, id2bind)
    ELSE Failed(ErrInvalidScope)

EmitMatchShapeResultAnyVar(binding) ==
    IF scopes = <<>> THEN Failed(ErrEmptyArray)
    ELSE IF store[Top].kind \in {"DataflowScope", "NonDataflowScope"}
    THEN Emitted(Top, binding, id2bind)
    ELSE Failed(ErrInvalidScope)

EmitMatchShapeResultRecording(binding) ==
    IF scopes = <<>> THEN Failed(ErrEmptyArray)
    ELSE IF store[Top].kind = "DataflowScope"
    THEN IF ~IsDataflowVar(binding.var) THEN Failed(ErrMatchLocal)
         ELSE Emitted(Top, binding,
                      MapSet(id2bind, binding.var.vid, binding.value))
    ELSE IF store[Top].kind = "NonDataflowScope"
    THEN IF IsDataflowVar(binding.var) THEN Failed(ErrMatchGlobal)
         ELSE Emitted(Top, binding,
                      MapSet(id2bind, binding.var.vid, binding.value))
    ELSE Failed(ErrInvalidScope)

\* IRBuilderNode::EmitMatchShape(const MatchShape&)
EmitMatchShapeResult(binding) ==
    IF scopes = <<>> THEN Failed(ErrEmptyArray)
    ELSE IF store[Top].kind = "DataflowScope"
    THEN IF ~IsDataflowVar(binding.var) THEN Failed(ErrMatchLocal)
         ELSE Emitted(Top, binding, id2bind)
    ELSE IF store[Top].kind = "NonDataflowScope"
    THEN IF IsDataflowVar(binding.var) THEN Failed(ErrMatchGlobal)
         ELSE Emitted(Top, binding, id2bind)
    ELSE Failed(ErrInvalidScope)

ValueOr(hint, default) == IF hint = NullOpt THEN default ELSE hint

\* CreateScopedVar
CreateScopedVar(name_hint) ==
    IF scopes = <<>> THEN [err |-> ErrEmptyArray, var |-> NoVar]
    ELSE IF store[Top].kind = "DataflowScope"
    THEN [err |-> NoErr,
          var |-> DataflowVar(Id(nextId,
                     UniqueName(name2value, ValueOr(name_hint, "lv"))))]
    ELSE IF store[Top].kind = "NonDataflowScope"
    THEN [err |-> NoErr,
          var |-> Var(Id(nextId,
                     UniqueName(name2value, ValueOr(name_hint, "gv"))))]
    ELSE [err |-> ErrInvalidScope, var |-> NoVar]

\* CreateVarBinding
CreateVarBinding(var, expr) ==
    IF expr.kind = "Call"
    THEN [err |-> NoErr,
          binding |-> VarBinding([var EXCEPT !.shape = InferShape(expr),
                                             !.type = InferType(expr)], expr)]
    ELSE IF expr.kind = "Var"
    THEN [err |-> NoErr,
          binding |-> VarBinding([var EXCEPT !.shape = expr.shape,
                                             !.type = expr.type], expr)]
    ELSE IF expr.kind = "TupleGetItem"
    THEN IF ~expr.tupleIsVar
         THEN [err |-> ErrTupleField, binding |-> VarBinding(var, expr)]
         ELSE LET i == expr.index + 1
                  sh == IF expr.fieldShapes # <<>>
                        THEN expr.fieldShapes[i] ELSE var.shape
                  ty == IF expr.fieldTypes # <<>>
                        THEN expr.fieldTypes[i] ELSE var.type
              IN  [err |-> NoErr,
                   binding |-> VarBinding([var EXCEPT !.shape = sh,
                                                      !.type = ty], expr)]
    ELSE [err |-> NoErr, binding |-> VarBinding(var, expr)]

\* IRBuilderNode::Emit(const Expr&, const Optional<String>&)
EmitExprResult(expr, name_hint) ==
    LET v == CreateScopedVar(name_hint)
    IN  IF v.err # NoErr THEN Failed(v.err)
        ELSE LET b == CreateVarBinding(v.var, expr)
             IN  IF b.err # NoErr THEN Failed(b.err)
                 ELSE EmitResult(b.binding)

\* IRBuilderNode::EmitOutput(const Expr&, const Optional<String>&)
EmitOutputExprResult(output, name_hint) ==
    IF scopes = <<>> THEN Failed(ErrEmptyArray)
    ELSE IF store[Top].kind = "DataflowScope"
    THEN LET b == CreateVarBinding(
                      Var(Id(nextId,
                             UniqueName(name2value, ValueOr(name_hint, "gv")))),
                      output)
         IN  IF b.err # NoErr THEN Failed(b.err)
             ELSE EmitResult(b.binding)
    ELSE Failed(ErrInvalidScope)

EmitMatchShapeExprResultKeepRank(value, pattern, name_hint) ==
    LET v == CreateScopedVar(name_hint)
    IN  IF v.err # NoErr THEN Failed(v.err)
        ELSE IF value.type.k = "undef" THEN Failed(ErrUnchecked)
        ELSE IF value.type.k = "ShapeType"
        THEN EmitMatchShapeResult(
                 MatchShape(value, pattern, [v.var EXCEPT !.type = ShapeType]))
        ELSE IF value.type.k = "DynTensorType"
        THEN EmitMatchShapeResult(
                 MatchShape(value, pattern,
                     [v.var EXCEPT !.shape = ShapeExpr(pattern),
                                   !.type = value.type]))
        ELSE Failed(ErrMatchType)

\* IRBuilderNode::EmitMatchShape(const Expr&, const Array<PrimExpr>&, ...)
EmitMatchShapeExprResult(value, pattern, name_hint) ==
    LET v == CreateScopedVar(name_hint)
    IN  IF v.err # NoErr THEN Failed(v.err)
        ELSE IF value.type.k = "undef" THEN Failed(ErrUnchecked)
        ELSE IF value.type.k = "ShapeType"
        THEN EmitMatchShapeResult(
                 MatchShape(value, pattern, [v.var EXCEPT !.type = ShapeType]))
        ELSE IF value.type.k = "DynTensorType"
        THEN EmitMatchShapeResult(
                 MatchShape(value, pattern,
                     [v.var EXCEPT !.shape = ShapeExpr(pattern),
                                   !.type = DynTensorType(Len(pattern),
                                                          value.type.dtype)]))
        ELSE Failed(ErrMatchType)


(***************************************************************************)
(* IRBuilderNode                                                           *)
(***************************************************************************)
\* room left in the model for one more binding, id or scope object
Room(r) == r.err = NoErr => Len(store[Top].bindings) < MaxBindings
IdRoom == nextId <= MaxIds

Apply(r) ==
    /\ Room(r)
    /\ store' = r.store
    /\ id2bind' = r.id2bind
    /\ UNCHANGED <<scopes, name2value, frames, cbRuns, pushed, lifo>>

\* the same for a call that makes the var it binds: the ids left bound it
ApplyCreated(r) ==
    /\ IdRoom
    /\ store' = r.store
    /\ id2bind' = r.id2bind
    /\ nextId' = (IF r.err = NoErr THEN nextId + 1 ELSE nextId)
    /\ UNCHANGED <<scopes, name2value, frames, cbRuns, pushed, lifo>>

\* scopes.push_back(scope) of a scope object made for the call
PushNew(op, node) ==
    /\ Len(scopes) < MaxNest
    /\ store' = Alloc(FreshScope, node)
    /\ cbRuns' = [t \in DOMAIN cbRuns \cup {FreshScope} |->
                      IF t = FreshScope THEN <<>> ELSE cbRuns[t]]
    /\ scopes' = Append(scopes, FreshScope)
    /\ frames' = Append(frames, NewFrame)
    /\ pushed' = pushed \cup {FreshScope}
    /\ Called([op |-> op, err |-> NoErr])
    /\ UNCHANGED <<name2value, id2bind, nextId, lifo>>

\* IRBuilderNode::BeginDataflowBlock / BeginBindingBlock
BeginDataflowBlock == PushNew("BeginDataflowBlock", DataflowScope)
BeginBindingBlock == PushNew("BeginBindingBlock", NonDataflowScope)
\* PushScope(IRModuleScope()) and PushScope(BaseScope())
BeginModule == PushNew("PushScope", IRModuleScope)
BeginBase == PushNew("PushScope", BaseScope)

NoBlock == [kind |-> "none", bindings |-> <<>>]
DataflowBlock(bindings) == [kind |-> "DataflowBlock", bindings |-> bindings]
BindingBlock(bindings) == [kind |-> "BindingBlock", bindings |-> bindings]

\* the block EndBlock makes of the popped scope, or its error
BlockOf(node) ==
    IF node.kind = "DataflowScope"
    THEN [err |-> NoErr, block |-> DataflowBlock(node.bindings)]
    ELSE IF node.kind = "NonDataflowScope"
    THEN [err |-> NoErr, block |-> BindingBlock(node.bindings)]
    ELSE [err |-> ErrInvalidScope, block |-> NoBlock]

Drop(f, s) == [t \in DOMAIN f \ {s} |-> f[t]]

\* IRBuilderNode::EndBlock; the popped scope object dies with the call
EndBlock ==
    IF scopes = <<>>
    THEN /\ Called([op |-> "EndBlock", err |-> ErrEmptyStack, block |-> NoBlock,
                    kind |-> "none", bindings |-> <<>>])
         /\ UNCHANGED <<store, scopes, name2value, id2bind, nextId, frames,
                        cbRuns, pushed, lifo>>
    ELSE LET s == Top
             node == store[s]
             b == BlockOf(node)
         IN  /\ scopes' = Butlast(scopes)
             /\ frames' = Butlast(frames)
             /\ name2value' = PopRegistry(node)
             /\ store' = Drop(store, s)
             /\ cbRuns' = Drop(PopRuns(s, node), s)
             /\ pushed' = pushed \ {s}
             /\ Called([op |-> "EndBlock", err |-> b.err, block |-> b.block,
                        kind |-> node.kind, bindings |-> node.bindings])
             /\ UNCHANGED <<id2bind, nextId, lifo>>

\* IRBuilderNode::Emit(const VarBinding&)
Emit(binding) ==
    LET r == EmitResult(binding)
    IN  /\ Apply(r)
        /\ Called([op |-> "Emit", err |-> r.err, binding |-> binding,
                   var |-> r.var])
        /\ UNCHANGED nextId

\* IRBuilderNode::EmitOutput(const VarBinding&)
EmitOutput(binding) ==
    LET r == EmitOutputResult(binding)
    IN  /\ Apply(r)
        /\ Called([op |-> "EmitOutput", err |-> r.err, binding |-> binding,
                   var |-> r.var])
        /\ UNCHANGED nextId

\* IRBuilderNode::EmitMatchShape(const MatchShape&)
EmitMatchShape(binding) ==
    LET r == EmitMatchShapeResult(binding)
    IN  /\ Apply(r)
        /\ Called([op |-> "EmitMatchShape", err |-> r.err, binding |-> binding,
                   var |-> r.var])
        /\ UNCHANGED nextId

\* IRBuilderNode::Emit(const Expr&, const Optional<String>&)
EmitExpr(expr, name_hint) ==
    LET r == EmitExprResult(expr, name_hint)
    IN  /\ ApplyCreated(r)
        /\ Called([op |-> "EmitExpr", err |-> r.err, expr |-> expr,
                   hint |-> name_hint, var |-> r.var])

\* IRBuilderNode::EmitOutput(const Expr&, const Optional<String>&)
EmitOutputExpr(output, name_hint) ==
    LET r == EmitOutputExprResult(output, name_hint)
    IN  /\ ApplyCreated(r)
        /\ Called([op |-> "EmitOutputExpr", err |-> r.err, expr |-> output,
                   hint |-> name_hint, var |-> r.var])

\* IRBuilderNode::EmitMatchShape(const Expr&, const Array<PrimExpr>&, ...)
EmitMatchShapeExpr(value, pattern, name_hint) ==
    LET r == EmitMatchShapeExprResult(value, pattern, name_hint)
    IN  /\ ApplyCreated(r)
        /\ Called([op |-> "EmitMatchShapeExpr", err |-> r.err, expr |-> value,
                   pattern |-> pattern, hint |-> name_hint, var |-> r.var])

Blocks ==
    \/ BeginDataflowBlock
    \/ BeginBindingBlock
    \/ BeginModule
    \/ BeginBase
    \/ EndBlock

\* the builder called with bindings the caller has made
NextEmit ==
    \/ Blocks
    \/ \E var \in CallerVars, value \in Exprs : Emit(VarBinding(var, value))
    \/ \E var \in CallerVars, value \in Exprs : EmitOutput(VarBinding(var, value))
    \/ \E var \in CallerVars, value \in Exprs, pattern \in Patterns :
           EmitMatchShape(MatchShape(value, pattern, var))
    \/ \E expr \in Exprs, hint \in Hints : EmitOutputExpr(expr, hint)

SpecEmit == Init /\ [][NextEmit]_vars

ErrNoBinding == "Cannot find binding"
NoExpr == [kind |-> "none", op |-> "", shape |-> NoShape, type |-> NoType,
           tupleIsVar |-> FALSE, index |-> 0, fieldShapes |-> <<>>,
           fieldTypes |-> <<>>]

LookupBindingResultScoped(id) ==
    IF scopes # <<>> /\ \E i \in DOMAIN store[Top].bindings :
                            store[Top].bindings[i].var.vid = id
    THEN [err |-> NoErr, value |-> id2bind[id]]
    ELSE [err |-> ErrNoBinding, value |-> NoExpr]

\* IRBuilderNode::LookupBinding: what the call returns
LookupBindingResult(id) ==
    IF id \in DOMAIN id2bind
    THEN [err |-> NoErr, value |-> id2bind[id]]
    ELSE [err |-> ErrNoBinding, value |-> NoExpr]

\* IRBuilderNode::LookupBinding
LookupBinding(id) ==
    LET r == LookupBindingResult(id)
    IN  /\ Called([op |-> "LookupBinding", err |-> r.err, id |-> id,
                   value |-> r.value])
        /\ UNCHANGED <<store, scopes, name2value, id2bind, nextId, frames,
                       cbRuns, pushed, lifo>>

\* the ids a caller can ask about: those of its own vars and that of the
\* var the last call returned
CallerIds == {v.vid : v \in CallerVars}
Returned ==
    IF "var" \in DOMAIN ret /\ ret.err = NoErr THEN {ret.var.vid} ELSE {}

\* blocks, bindings of the caller's vars, and lookups
NextLookup ==
    \/ BeginDataflowBlock
    \/ BeginBindingBlock
    \/ EndBlock
    \/ \E var \in CallerVars, value \in Exprs : Emit(VarBinding(var, value))
    \/ \E var \in CallerVars, value \in Exprs : EmitOutput(VarBinding(var, value))
    \/ \E id \in CallerIds : LookupBinding(id)

SpecLookup == Init /\ [][NextLookup]_vars

\* blocks, match-shape bindings in both forms, and lookups
NextMatchLookup ==
    \/ BeginDataflowBlock
    \/ BeginBindingBlock
    \/ EndBlock
    \/ \E var \in CallerVars : Emit(VarBinding(var, EVar))
    \/ \E var \in CallerVars, pattern \in Patterns :
           EmitMatchShape(MatchShape(EVar, pattern, var))
    \/ \E pattern \in Patterns, hint \in Hints :
           EmitMatchShapeExpr(EVar, pattern, hint)
    \/ \E id \in CallerIds \cup Returned : LookupBinding(id)

SpecMatchLookup == Init /\ [][NextMatchLookup]_vars

\* values of a shape type, of a tuple type and of a tensor type of rank 3
TupleType == [k |-> "TupleType", rank |-> 0, dtype |-> ""]
EShapeOf == [EVar EXCEPT !.shape = NoShape, !.type = ShapeType]
ETuple == [EVar EXCEPT !.shape = NoShape, !.type = TupleType]
ETensor3 == [EVar EXCEPT !.shape = ShapeExpr(<<"a", "b", "c">>),
                         !.type = DynTensorType(3, "i32")]
MatchValues == {ECall, EVar, ETensor3, EShapeOf, ETuple}

\* blocks and a module scope, and match-shape bindings of values of every
\* type
NextMatch ==
    \/ BeginDataflowBlock
    \/ BeginBindingBlock
    \/ BeginModule
    \/ EndBlock
    \/ \E value \in MatchValues, pattern \in Patterns, hint \in Hints :
           EmitMatchShapeExpr(value, pattern, hint)

SpecMatch == Init /\ [][NextMatch]_vars

\* the builder called with expressions, making the vars itself
NextBuilder ==
    \/ Blocks
    \/ \E expr \in Exprs, hint \in Hints : EmitExpr(expr, hint)
    \/ \E expr \in Exprs, hint \in Hints : EmitOutputExpr(expr, hint)
    \/ \E expr \in Exprs, pattern \in Patterns, hint \in Hints :
           EmitMatchShapeExpr(expr, pattern, hint)

SpecBuilder == Init /\ [][NextBuilder]_vars

(***************************************************************************)
(* IRModuleScopeNode                                                       *)
(***************************************************************************)
\* function objects: an identity and the structure StructuralEqual compares
Body(i) == "f" \o ToString(i \div 2)
Funcs == {[obj |-> i, body |-> Body(i)] : i \in 1..MaxFuncs}
FuncNames == {"main", "aux"}

PointerEqual(f, g) == f = g

\* StructuralEqual / StructuralHash, the key of structural_map
StructuralEqual(f, g) == f.body = g.body

\* GlobalVar(name): a new GlobalVarNode; GlobalVars are compared by identity
GlobalVar(obj, name) == [obj |-> obj, name_hint |-> name]

\* structural_map.find(func)
Find(structural_map, func) ==
    {e \in structural_map : StructuralEqual(e.func, func)}

\* IRModuleScopeNode::Add: the symbol returned and the scope it leaves
AddResult(node, name, func) ==
    LET it == Find(node.structural_map, func)
    IN  IF it # {}
        THEN [gv |-> (CHOOSE e \in it : TRUE).gv, node |-> node]
        ELSE LET gv == GlobalVar(nextId, name)
             IN  [gv |-> gv,
                  node |-> [node EXCEPT
                     !.structural_map = @ \cup {[func |-> func, gv |-> gv]},
                     !.func_map = {e \in @ : e.gv # gv}
                                      \cup {[gv |-> gv, func |-> func]}]]

\* IRModuleScopeNode::Add, on a module scope the caller holds
Add(s, name, func) ==
    LET r == AddResult(store[s], name, func)
    IN  /\ store[s].kind = "IRModuleScope"
        /\ Len(adds) < MaxAdds
        /\ store' = [store EXCEPT ![s] = r.node]
        /\ nextId' = IF r.node = store[s] THEN nextId ELSE nextId + 1
        /\ Called([op |-> "Add", err |-> NoErr, scope |-> s, name |-> name,
                   func |-> func, gv |-> r.gv])
        /\ UNCHANGED <<scopes, name2value, id2bind, frames, cbRuns,
                       pushed, lifo>>

ErrNoModule == "No IRModuleScope in context"
NullScope == 0
NoGlobalVar == GlobalVar(0, "")

GetScopeOutermost(kind) ==
    LET hits == {i \in DOMAIN scopes : store[scopes[i]].kind = kind}
    IN  IF hits = {} THEN NullScope
        ELSE scopes[CHOOSE i \in hits : \A j \in hits : i <= j]

\* for (int i = n - 1; i >= 0; --i) if (scopes[i].as<TScopeNode>()) return
RECURSIVE GetScopeFrom(_, _)
GetScopeFrom(kind, i) ==
    IF i = 0 THEN NullScope
    ELSE IF store[scopes[i]].kind = kind THEN scopes[i]
    ELSE GetScopeFrom(kind, i - 1)

\* ScopeManagerNode::GetScope<TScope>
GetScope(kind) == GetScopeFrom(kind, Len(scopes))

\* IRModuleScopeNode::AsIRModule
AsIRModule(node) == node.func_map

\* DataflowScope(), NonDataflowScope(), IRModuleScope(): a caller makes a
\* scope object of a subclass
NewScopeOf(node) ==
    /\ FreshScope \in ScopeIds
    /\ store' = Alloc(FreshScope, node)
    /\ cbRuns' = [t \in DOMAIN cbRuns \cup {FreshScope} |->
                      IF t = FreshScope THEN <<>> ELSE cbRuns[t]]
    /\ Called([op |-> node.kind, err |-> NoErr])
    /\ UNCHANGED <<scopes, name2value, id2bind, nextId, frames, pushed,
                   lifo>>

\* IRBuilderNode::AddFuncToContext
AddFuncToContext(func, func_name_hint) ==
    LET s == GetScope("IRModuleScope")
    IN  IF s = NullScope
        THEN /\ Called([op |-> "AddFuncToContext", err |-> ErrNoModule,
                        scope |-> s, func |-> func, gv |-> NoGlobalVar])
             /\ UNCHANGED <<store, scopes, name2value, id2bind, nextId,
                            frames, cbRuns, pushed, lifo>>
        ELSE LET r == AddResult(store[s], func_name_hint, func)
             IN  /\ r.node # store[s] => IdRoom
                 /\ store' = [store EXCEPT ![s] = r.node]
                 /\ nextId' = IF r.node = store[s] THEN nextId
                               ELSE nextId + 1
                 /\ Called([op |-> "AddFuncToContext", err |-> NoErr,
                            scope |-> s, func |-> func, gv |-> r.gv])
                 /\ UNCHANGED <<scopes, name2value, id2bind, frames,
                                cbRuns, pushed, lifo>>

\* IRBuilderNode::GetContextIRModule
GetContextIRModule ==
    LET s == GetScope("IRModuleScope")
    IN  /\ Called(IF s = NullScope
                  THEN [op |-> "GetContextIRModule", err |-> ErrNoModule,
                        scope |-> s, module |-> {}]
                  ELSE [op |-> "GetContextIRModule", err |-> NoErr,
                        scope |-> s, module |-> AsIRModule(store[s])])
        /\ UNCHANGED <<store, scopes, name2value, id2bind, nextId, frames,
                       cbRuns, pushed, lifo>>

\* module scopes and block scopes the caller makes, pushed and popped, and
\* the module of the context
NextContext ==
    \/ \E node \in {IRModuleScope, DataflowScope, NonDataflowScope} :
           NewScopeOf(node)
    \/ \E s \in DOMAIN store : PushScope(s)
    \/ PopScope
    \/ \E func \in Funcs, name \in FuncNames : AddFuncToContext(func, name)
    \/ GetContextIRModule

SpecContext == Init /\ [][NextContext]_vars

NextModule ==
    \/ BeginModule
    \/ \E s \in DOMAIN store, name \in FuncNames, func \in Funcs :
           Add(s, name, func)

SpecModule == Init /\ [][NextModule]_vars

(***************************************************************************)
(* Properties of the scope stack and the name registry.                    *)
(***************************************************************************)
Popped == ret.op = "PopScope" /\ ret.err = NoErr
OnStack(s) == \E i \in DOMAIN scopes : scopes[i] = s
OwnedByOpenScope(n) ==
    \E i \in DOMAIN scopes : n \in Range(store[scopes[i]].vars)

\* C3: GetUniqueName("lv") called twice in a row on an empty registry, with
\* no call in between, returns "lv0" the first time and "lv1" the second.
C3_TwiceInARow ==
    (/\ ret.op = "GetUniqueName" /\ ret.prefix = "lv"
     /\ prev.op = "GetUniqueName" /\ prev.arg = "lv"
     /\ name2value = EmptyMap)
    => (prev.val = "lv0" /\ ret.name = "lv1")

\* C8 as stated: after a matched push/pop pair, of scopes used once and of
\* names registered to open scopes, the registry equals its state just
\* before the push.
C8_RegistryRestored ==
    (Popped /\ lifo) => name2value = ret.snap

\* C8 as amended: after a matched push/pop pair, every name the popped
\* scope owns, so every name registered in between with the pushed scope as
\* owner, is absent from the registry.
C8_OwnedNamesReleased ==
    Popped => Range(store[ret.scope].vars) \cap DOMAIN name2value = {}

\* a pop has released the name of its scope while a name registered in
\* between to an enclosing scope stays
C8_Witness ==
    /\ Popped /\ lifo
    /\ store[ret.scope].vars # <<>>
    /\ Range(store[ret.scope].vars) \cap DOMAIN ret.snap = {}
    /\ DOMAIN name2value \ DOMAIN ret.snap # {}

CallbacksOnce ==
    /\ \A s \in DOMAIN cbRuns :
          \A i \in DOMAIN cbRuns[s] :
             /\ cbRuns[s][i] <= 1
             /\ (s \notin pushed \/ OnStack(s)) => cbRuns[s][i] = 0
    /\ Popped =>
          /\ ret.ran = store[ret.scope].callbacks
          /\ \A i \in DOMAIN cbRuns[ret.scope] : cbRuns[ret.scope][i] = 1

\* C9 as stated: every callback registered on a scope runs exactly once, at
\* the pop of its scope and in registration order, never before that pop
\* and never again.
C9_ExactlyOnce == CallbacksOnce

\* C9 as amended: the same, when every scope object is pushed at most once.
C9_ExactlyOncePerPush == lifo => CallbacksOnce

\* a scope with two different callbacks has been popped
C9_Witness ==
    /\ Popped /\ lifo
    /\ Len(ret.ran) = 2 /\ ret.ran[1] # ret.ran[2]

RegistryOwned ==
    \A n \in Names : n \in DOMAIN name2value <=> OwnedByOpenScope(n)

\* C10 as stated: in every reachable state a name is in the registry iff a
\* scope on the stack has it among its owned names.
C10_PresentIffOwned == RegistryOwned

\* C10 as amended: the same, when every scope object is pushed at most once
\* and names are registered only to scopes that are on the stack.
C10_PresentIffOwnedLifo == lifo => RegistryOwned

\* a popped scope still lists a name that an open scope has registered anew,
\* next to a name nobody owns any more
C10_Witness ==
    /\ lifo
    /\ \E s \in DOMAIN store :
          /\ ~OnStack(s) /\ s \in pushed
          /\ \E n \in Range(store[s].vars) : n \notin DOMAIN name2value
          /\ \E n \in Range(store[s].vars) : OwnedByOpenScope(n)

\* C11: AddVars of a name that is in the registry fails, whichever scope
\* owns the name and whichever scope object is passed, and the failed call
\* leaves the registry, the stack and the vars of every scope as they were.
C11_DuplicateRefused ==
    [][(ret'.op = "AddVars" /\ ret'.name \in DOMAIN name2value) =>
           /\ ret'.err = ErrVarExists
           /\ name2value' = name2value
           /\ store' = store
           /\ scopes' = scopes]_vars

\* AddVars has refused a name while two scopes are open, one of which owns
\* the name
C11_Witness ==
    /\ ret.op = "AddVars" /\ ret.err = ErrVarExists
    /\ ret.name \in DOMAIN name2value
    /\ Len(scopes) = 2 /\ scopes[1] # scopes[2]
    /\ OwnedByOpenScope(ret.name)

\* C12: PopScope on an empty stack fails: it returns no scope, runs no
\* callback and leaves the registry and the stack as they were; a PopScope
\* that succeeds had a scope on the stack and returns the top one.
C12_EmptyPopFails ==
    [][(ret'.op = "PopScope") =>
           /\ scopes = <<>> =>
                 /\ ret'.err = ErrEmptyArray
                 /\ "scope" \notin DOMAIN ret'
                 /\ scopes' = <<>>
                 /\ name2value' = name2value
                 /\ cbRuns' = cbRuns
                 /\ store' = store
           /\ ret'.err = NoErr =>
                 (scopes # <<>> /\ ret'.scope = Top)]_vars

\* PopScope has failed on an empty stack while the registry holds a name
\* and a scope that was pushed before holds a callback
C12_Witness ==
    /\ ret.op = "PopScope" /\ ret.err = ErrEmptyArray
    /\ scopes = <<>>
    /\ name2value # EmptyMap
    /\ \E s \in pushed : store[s].callbacks # <<>>

\* a successful PopScope step makes the calls of the callbacks of the popped
\* scope first, in registration order and with the registry untouched, then
\* erases the names of the scope in order, and returns the scope
PopInOrder(node, ev) ==
    LET ncb == Len(node.callbacks)
    IN  /\ Len(ev) = ncb + Len(node.vars)
        /\ \A k \in 1..ncb :
              /\ ev[k].ev = "callback"
              /\ ev[k].what = node.callbacks[k]
              /\ ev[k].registry = name2value
        /\ \A k \in (ncb + 1)..Len(ev) :
              /\ ev[k].ev = "erase"
              /\ ev[k].what = node.vars[k - ncb]
              /\ ev[k].what \notin DOMAIN ev[k].registry
        /\ ret'.ran = node.callbacks
        /\ ret'.scope = Top
        /\ name2value' = IF ev = <<>> THEN name2value
                          ELSE ev[Len(ev)].registry

NamesRegisteredAtCallbacks(node, ev) ==
    \A k \in DOMAIN ev :
        ev[k].ev = "callback" => Range(node.vars) \subseteq DOMAIN ev[k].registry

\* C17 as stated: PopScope calls every callback of the popped scope, then
\* erases every name of the scope, then returns the scope; while a callback
\* runs every name the scope owns is in the registry.
C17_CallbacksSeeOwnedNames ==
    [][(ret'.op = "PopScope" /\ ret'.err = NoErr) =>
          LET ev == PopEvents(store[Top], name2value)
          IN  /\ PopInOrder(store[Top], ev)
              /\ NamesRegisteredAtCallbacks(store[Top], ev)]_vars

\* C17 as amended: the same order; while a callback runs the registry is as
\* it was when PopScope was called, and it holds every name the scope owns
\* when every scope object was pushed at most once and names were
\* registered only to scopes on the stack.
C17_CallbacksBeforeErasures ==
    [][(ret'.op = "PopScope" /\ ret'.err = NoErr) =>
          LET ev == PopEvents(store[Top], name2value)
          IN  /\ PopInOrder(store[Top], ev)
              /\ lifo => NamesRegisteredAtCallbacks(store[Top], ev)]_vars

\* a scope with a callback and a name has been popped: the callback has run
\* and the name is gone
C17_Witness ==
    /\ Popped /\ lifo
    /\ ret.ran # <<>>
    /\ store[ret.scope].vars # <<>>
    /\ Range(store[ret.scope].vars) \cap DOMAIN name2value = {}
    /\ \A i \in DOMAIN cbRuns[ret.scope] : cbRuns[ret.scope][i] = 1

(***************************************************************************)
(* Properties of the emission protocol.                                    *)
(***************************************************************************)
\* the failures the specification calls ScopeDisciplineError
ScopeDisciplineError ==
    {ErrEmitLocal, ErrEmitOutput, ErrMatchLocal, ErrMatchGlobal,
     ErrInvalidScope}

TopKind == store[Top].kind
TopBindings == store[Top].bindings
Unchanged == store' = store /\ id2bind' = id2bind /\ scopes' = scopes
Appended(b) ==
    /\ scopes' = scopes
    /\ store' = [store EXCEPT ![Top].bindings = Append(@, b)]

\* C1: end_block() called right after begin_dataflow_block(); emit(e1);
\* emit_output(e2) returns a DataflowBlock of exactly two bindings, of e1
\* and of e2 in this order.
C1_BlockOfBothBindings ==
    scen.stage = 4 =>
        /\ ret.err = NoErr
        /\ ret.block.kind = "DataflowBlock"
        /\ Len(ret.block.bindings) = 2
        /\ \A i \in 1..2 : ret.block.bindings[i].value = scen.exprs[i]

\* C2: in a Dataflow scope emit_output(expr, name_hint) succeeds, returns a
\* new global Var, appends one binding of that Var to the scope and records
\* id2bind[var] = expr.
C2_EmitOutputSucceeds ==
    (ret.op = "EmitOutputExpr" /\ scopes # <<>> /\ TopKind = "DataflowScope")
    => /\ ret.err = NoErr
       /\ ~IsDataflowVar(ret.var)
       /\ TopBindings # <<>>
       /\ TopBindings[Len(TopBindings)].var = ret.var
       /\ ret.var.vid \in DOMAIN id2bind
       /\ id2bind[ret.var.vid] = ret.expr

\* C4: Emit(VarBinding) in a Dataflow scope fails for a global var and
\* changes nothing, and succeeds for a local var; in a NonDataflow scope it
\* succeeds for either; a success appends the binding to the current scope,
\* records it in id2bind and returns binding.var.
C4_EmitLocality ==
    [][(ret'.op = "Emit" /\ scopes # <<>>) =>
        LET b == ret'.binding
        IN  /\ (TopKind = "DataflowScope" /\ ~IsDataflowVar(b.var)) =>
                   (ret'.err \in ScopeDisciplineError /\ Unchanged)
            /\ (\/ TopKind = "DataflowScope" /\ IsDataflowVar(b.var)
                \/ TopKind = "NonDataflowScope") =>
                   /\ ret'.err = NoErr
                   /\ Appended(b)
                   /\ ret'.var = b.var
                   /\ id2bind' = MapSet(id2bind, b.var.vid, b.value)]_vars

\* Emit has refused a global var in a Dataflow scope that holds a binding
\* of a local var
C4_Witness ==
    /\ ret.op = "Emit" /\ ret.err = ErrEmitLocal
    /\ TopKind = "DataflowScope"
    /\ \E i \in DOMAIN TopBindings :
          TopBindings[i].tag = "VarBinding" /\ IsDataflowVar(TopBindings[i].var)

\* C5: both forms of EmitOutput fail when the current scope is not a
\* Dataflow scope, and then leave the bindings and id2bind as they were.
C5_EmitOutputOutsideDataflow ==
    [][(/\ ret'.op \in {"EmitOutput", "EmitOutputExpr"}
        /\ scopes # <<>> /\ TopKind # "DataflowScope") =>
           (ret'.err \in ScopeDisciplineError /\ Unchanged)]_vars

\* EmitOutput(VarBinding) has failed on a NonDataflow scope that holds a
\* binding
C5_Witness ==
    /\ ret.op = "EmitOutput" /\ ret.err = ErrInvalidScope
    /\ TopKind = "NonDataflowScope" /\ TopBindings # <<>>

\* C6: EmitMatchShape(MatchShape) succeeds in a Dataflow scope iff the var
\* is local and in a NonDataflow scope iff it is global; a violation fails
\* and appends nothing, a success appends the binding to the current scope.
C6_MatchShapeLocality ==
    [][(/\ ret'.op = "EmitMatchShape" /\ scopes # <<>>
        /\ TopKind \in {"DataflowScope", "NonDataflowScope"}) =>
        LET b == ret'.binding
            legal == (TopKind = "DataflowScope") <=> IsDataflowVar(b.var)
        IN  /\ (ret'.err = NoErr) <=> legal
            /\ legal => (Appended(b) /\ ret'.var = b.var)
            /\ ~legal => (ret'.err \in ScopeDisciplineError /\ Unchanged)]_vars

\* EmitMatchShape has refused a local var in a NonDataflow scope that holds
\* the match-shape binding of a global var
C6_Witness ==
    /\ ret.op = "EmitMatchShape" /\ ret.err = ErrMatchGlobal
    /\ TopKind = "NonDataflowScope"
    /\ \E i \in DOMAIN TopBindings :
          TopBindings[i].tag = "MatchShape" /\ ~IsDataflowVar(TopBindings[i].var)

\* a call that recorded a binding in id2bind, and the value it recorded
EmitOps == {"Emit", "EmitOutput", "EmitExpr", "EmitOutputExpr"}
Recorded(r) == r.op \in EmitOps /\ r.err = NoErr
RecordedValue(r) == IF "binding" \in DOMAIN r THEN r.binding.value ELSE r.expr

\* a successful emit records its value; an id enters id2bind only by a
\* successful emit of its var; LookupBinding answers from id2bind and fails
\* for an id that is not in it
LookupFollowsEmits ==
    /\ Recorded(ret') =>
          /\ ret'.var.vid \in DOMAIN id2bind'
          /\ id2bind'[ret'.var.vid] = RecordedValue(ret')
    /\ \A id \in DOMAIN id2bind' \ DOMAIN id2bind :
          Recorded(ret') /\ ret'.var.vid = id
    /\ ret'.op = "LookupBinding" =>
          IF ret'.id \in DOMAIN id2bind
          THEN ret'.err = NoErr /\ ret'.value = id2bind[ret'.id]
          ELSE ret'.err = ErrNoBinding

MatchOps == {"EmitMatchShape", "EmitMatchShapeExpr"}
HoldsMatchShapeOf(bindings, var) ==
    \E i \in DOMAIN bindings :
        bindings[i].tag = "MatchShape" /\ bindings[i].var = var

\* C14: EmitMatchShape, in both forms, leaves id2bind as it was and on
\* success appends a match-shape binding of the returned var to the current
\* scope; LookupBinding of that var right after fails when no emit has
\* recorded the var, while the current scope holds the match-shape binding.
C14_MatchShapeNotRecorded ==
    [][/\ ret'.op \in MatchOps =>
             /\ id2bind' = id2bind
             /\ ret'.err = NoErr =>
                   /\ scopes' = scopes
                   /\ Len(store'[Top].bindings) = Len(TopBindings) + 1
                   /\ SubSeq(store'[Top].bindings, 1, Len(TopBindings))
                          = TopBindings
                   /\ LET b == store'[Top].bindings[Len(TopBindings) + 1]
                      IN  b.tag = "MatchShape" /\ b.var = ret'.var
       /\ (/\ ret.op \in MatchOps /\ ret.err = NoErr
           /\ ret.var.vid \notin DOMAIN id2bind
           /\ ret'.op = "LookupBinding" /\ ret'.id = ret.var.vid) =>
             /\ ret'.err = ErrNoBinding
             /\ HoldsMatchShapeOf(store'[Top].bindings, ret.var)]_vars

\* LookupBinding has failed for a var that the current scope binds by a
\* match-shape binding, while id2bind holds the binding of another var
C14_Witness ==
    /\ ret.op = "LookupBinding" /\ ret.err = ErrNoBinding
    /\ scopes # <<>>
    /\ \E i \in DOMAIN TopBindings :
          TopBindings[i].tag = "MatchShape" /\ TopBindings[i].var.vid = ret.id
    /\ id2bind # EmptyMap

\* C16: in a Dataflow or NonDataflow scope EmitMatchShape(value, pattern,
\* name_hint) binds, for a value of a tensor type of dtype d, a new var of
\* shape pattern and of the tensor type of rank Len(pattern) and dtype d;
\* for a value of the shape type, a new var of the shape type and of no
\* shape; for a value of another type it fails with the type error and
\* appends nothing, as it fails and appends nothing for a value of no type.
C16_MatchShapeRefines ==
    [][(/\ ret'.op = "EmitMatchShapeExpr" /\ scopes # <<>>
        /\ TopKind \in {"DataflowScope", "NonDataflowScope"}) =>
        LET ty == ret'.expr.type
            var == ret'.var
            bound == /\ ret'.err = NoErr
                     /\ IsDataflowVar(var) = (TopKind = "DataflowScope")
                     /\ Appended(MatchShape(ret'.expr, ret'.pattern, var))
                     /\ id2bind' = id2bind
        IN  /\ ty.k = "DynTensorType" =>
                  /\ bound
                  /\ var.shape = ShapeExpr(ret'.pattern)
                  /\ var.type = DynTensorType(Len(ret'.pattern), ty.dtype)
            /\ ty.k = "ShapeType" =>
                  /\ bound
                  /\ var.shape = NoShape
                  /\ var.type = ShapeType
            /\ ty.k \notin {"DynTensorType", "ShapeType", "undef"} =>
                  (ret'.err = ErrMatchType /\ Unchanged)
            /\ ty.k = "undef" =>
                  (ret'.err = ErrUnchecked /\ Unchanged)]_vars

\* a value of a tensor type of rank 3 has been matched against a pattern of
\* two dimensions, and the current scope holds the binding
C16_Witness ==
    /\ ret.op = "EmitMatchShapeExpr" /\ ret.err = NoErr
    /\ ret.expr.type = DynTensorType(3, "i32")
    /\ ret.var.type = DynTensorType(2, "i32")
    /\ scopes # <<>>
    /\ TopBindings # <<>>
    /\ TopBindings[Len(TopBindings)] =
           MatchShape(ret.expr, ret.pattern, ret.var)

\* the bindings that the NonDataflow scopes of a store hold, with their places
HeldByNonDataflow(st) ==
    UNION {{<<s, i, st[s].bindings[i]>> : i \in DOMAIN st[s].bindings} :
           s \in {t \in DOMAIN st : st[t].kind = "NonDataflowScope"}}
HasLocal(bindings) ==
    \E i \in DOMAIN bindings : IsDataflowVar(bindings[i].var)

\* C19 as stated: no binding held by a NonDataflow scope, and so no binding
\* of a BindingBlock returned by EndBlock, binds a local var.
C19_NoLocalInBindingBlock ==
    /\ \A h \in HeldByNonDataflow(store) : ~IsDataflowVar(h[3].var)
    /\ (ret.op = "EndBlock" /\ ret.err = NoErr
            /\ ret.block.kind = "BindingBlock") => ~HasLocal(ret.block.bindings)

\* C19 as amended: a binding of a local var enters a NonDataflow scope only
\* by Emit(VarBinding) called with a local var the caller made; EmitOutput,
\* EmitMatchShape and EmitOutput(expr) never put one there, and a
\* BindingBlock returned by EndBlock holds the bindings of the popped
\* scope, none added.
C19_OnlyEmitBindsLocal ==
    [][/\ \A h \in HeldByNonDataflow(store') \ HeldByNonDataflow(store) :
              IsDataflowVar(h[3].var) =>
                  /\ ret'.op = "Emit" /\ ret'.err = NoErr
                  /\ ret'.binding = h[3]
                  /\ h[3].tag = "VarBinding"
       /\ (ret'.op = "EndBlock" /\ ret'.err = NoErr
               /\ ret'.block.kind = "BindingBlock") =>
              /\ store[Top].kind = "NonDataflowScope"
              /\ ret'.block.bindings = store[Top].bindings]_vars

\* EndBlock has returned a BindingBlock that binds a local var
C19_Witness ==
    /\ ret.op = "EndBlock" /\ ret.err = NoErr
    /\ ret.block.kind = "BindingBlock"
    /\ HasLocal(ret.block.bindings)

\* the bindings of the open scopes whose vars the builder made itself
CreatedBindings ==
    {p \in UNION {{<<s, i>> : i \in DOMAIN store[s].bindings} :
                   s \in Range(scopes)} :
        store[p[1]].bindings[p[2]].var.vid.obj \in 1..MaxIds}
BindingAt(p) == store[p[1]].bindings[p[2]]

\* C18: the vars made by Emit(expr), EmitMatchShape(value, pattern) and
\* EmitOutput(expr) and bound in scopes that are still open have pairwise
\* distinct names.
C18_CreatedNamesDistinct ==
    \A p, q \in CreatedBindings :
        p # q => BindingAt(p).var.vid.name # BindingAt(q).var.vid.name

\* C20: EndBlock on a current scope that is neither a Dataflow nor a
\* NonDataflow scope fails with the invalid-scope error and leaves the
\* builder as it was: the scope is still on top of the stack and the
\* registry still holds the names it owns.
C20_FailedEndBlockChangesNothing ==
    [][(/\ ret'.op = "EndBlock" /\ scopes # <<>>
        /\ TopKind \notin {"DataflowScope", "NonDataflowScope"}) =>
           /\ ret'.err = ErrInvalidScope
           /\ scopes' = scopes
           /\ name2value' = name2value]_vars

(***************************************************************************)
(* Properties of the module symbol table.                                  *)
(***************************************************************************)
AddsOn(s) == {i \in DOMAIN adds : adds[i].scope = s}
FirstAdd(s, i) ==
    CHOOSE k \in AddsOn(s) :
        /\ adds[k].func.body = adds[i].func.body
        /\ \A j \in AddsOn(s) :
              adds[j].func.body = adds[i].func.body => k <= j

\* C7: on one module scope two Add calls return the same GlobalVar iff their
\* functions are structurally equal, whatever the names given; the symbol is
\* the one made by the first such call; and the module holds as many symbols
\* as structurally distinct functions were added.
C7_OneSymbolPerStructure ==
    \A s \in DOMAIN store :
        /\ \A i, j \in AddsOn(s) :
              (adds[i].gv = adds[j].gv) <=>
                  (adds[i].func.body = adds[j].func.body)
        /\ \A i \in AddsOn(s) :
              adds[i].gv.name_hint = adds[FirstAdd(s, i)].name
        /\ Cardinality(store[s].func_map) =
              Cardinality({adds[i].func.body : i \in AddsOn(s)})
        /\ Cardinality({e.gv : e \in store[s].func_map}) =
              Cardinality(store[s].func_map)

\* one module has been given two structurally equal function objects under
\* different names and a distinct function under the first name again
C7_Witness ==
    \E s \in DOMAIN store :
        \E i, j, k \in AddsOn(s) :
            /\ i < j
            /\ adds[i].func # adds[j].func
            /\ adds[i].func.body = adds[j].func.body
            /\ adds[i].name # adds[j].name
            /\ adds[k].func.body # adds[i].func.body
            /\ adds[k].name = adds[i].name

(***************************************************************************)
(* Properties of the module of the context.                                *)
(***************************************************************************)
ModulesOnStack ==
    {i \in DOMAIN scopes : store[scopes[i]].kind = "IRModuleScope"}
Innermost == CHOOSE i \in ModulesOnStack : \A j \in ModulesOnStack : j <= i

====
